---------------------------- MODULE Spec2Model ----------------------------
(***************************************************************************)
(* OverflowCarousel (src/ofcarousel.js): a CSS-scroll-snap carousel whose  *)
(* JavaScript clones the slide set on both sides of the track, teleports   *)
(* the scroll offset out of the clones, restores the position on resize,   *)
(* drives pagination dots, prev/next/keyboard navigation and autoplay.     *)
(*                                                                         *)
(* Lengths are integers in sub-pixels: one CSS pixel is Scale units, so    *)
(* that the slide width (a division by itemsVisible), percentages and the  *)
(* half-pixel rounding of peekRatio are exact.  Times are milliseconds.    *)
(*                                                                         *)
(* The style sheet snaps by proximity only (scroll-snap-type: x proximity),*)
(* so a scroll may rest at any offset: a smooth scroll ends at its target, *)
(* and a relayout keeps the pixel offset or follows the slide.             *)
(***************************************************************************)
EXTENDS Integers, Sequences, FiniteSets, TLC

(***************************************************************************)
(* Bounds of the model                                                     *)
(***************************************************************************)
\* largest number of original slides in the track
MaxSlides == 2
\* largest itemsVisible option
MaxVisible == 5
\* width of the viewport, in pixels
ViewportPx == 12
\* the gap option in px, the peek option in px
GapN == 1
PeekN == 1
\* the gap option in % and in vw
PercentN == 10
\* how much wider than the viewport the window can be, in pixels
MarginPx == 2
\* how much a resize widens the viewport, in pixels
GrowPx == 8
\* largest number of images of the first slide that load after construction
MaxImages == 2

(***************************************************************************)
(* Program constants                                                       *)
(***************************************************************************)
\* setTimeout(..., 100) of the debounced scroll handler
ScrollDebounceMs == 100
\* const throttleDelay = 50
ThrottleDelay == 50
\* const debounceDelay = 150
DebounceDelay == 150
\* if (unit === 'em') return n * 16
EmPx == 16

(***************************************************************************)
(* Arithmetic helpers                                                      *)
(***************************************************************************)
Max(a, b) == IF a >= b THEN a ELSE b

Min(a, b) == IF a <= b THEN a ELSE b

Abs(a) == IF a >= 0 THEN a ELSE -a

RECURSIVE Gcd(_, _)
Gcd(a, b) == IF b = 0 THEN a ELSE Gcd(b, a % b)

RECURSIVE LcmUpTo(_)
LcmUpTo(n) == IF n <= 1 THEN 1 ELSE (LcmUpTo(n - 1) * n) \div Gcd(LcmUpTo(n - 1), n)

\* sub-pixels per CSS pixel: divisible by every itemsVisible, by 2 and by 100
Scale == 100 * LcmUpTo(MaxVisible)

Px(n) == n * Scale

\* Math.round(a / b) for b > 0: the nearest integer, halves rounded up
RoundDiv(a, b) == (2 * a + b) \div (2 * b)

\* ((raw % n) + n) % n with JavaScript's truncating %, which is the
\* mathematical modulus
Mod(raw, n) == raw % n

(***************************************************************************)
(* State                                                                   *)
(***************************************************************************)
VARIABLES
  jsOptions,       \* the options object passed to the constructor
  cssVars,         \* the --ofc-* variables of the root's computed style, as text
  baseOptions,     \* this._baseOptions: the options as constructed, with responsive
  options,         \* this.options: the effective options
  innerWidth,      \* window.innerWidth
  viewportWidth,   \* this.viewport.offsetWidth / clientWidth
  hidden,          \* document.hidden
  hover,           \* the pointer is over the root element
  focusInside,     \* root.contains(document.activeElement)
  originalCount,   \* this._originalCount
  trackLen,        \* number of .ofc-slide children of the track
  markup,          \* the children of .ofc-track as the page's markup gives them
  track,           \* the children of .ofc-track, in document order
  gapPx,           \* this._gapPx
  peekPx,          \* this._peekPx, also written to --ofc-peek
  edgeMargin,      \* the margin -peek _setupNonInfiniteMode gives the first and last slide
  rootClasses,     \* this.root.classList: the classes the instance puts on the root
  responsiveKeys,  \* the breakpoints of the responsive option in the order the caller wrote them
  appliedBreakpoint, \* appliedBreakpoint of the last _applyResponsiveSettings(), 0 when null
  scrollLeft,      \* this.viewport.scrollLeft
  scrollTarget,    \* target of the smooth scroll in progress, -1 when none
  isAdjusting,     \* this._isAdjusting
  scrollTimers,    \* pending timeouts of the debounced scroll handler (ms left)
  sinceScroll,     \* ms since the last scroll event, capped at ScrollDebounceMs
  initPending,     \* the requestAnimationFrame of _setupInfiniteLoop has not run
  scrollDir,       \* direction of the scroll events of the last 100 ms: -1, 1, 0 when none
  lastJump,        \* what the last run of the scroll handler did, and from which offset
  lastNav,         \* the control used last: a prev/next from an aligned rest, a dot, or
                   \* an arrow key the keyboard listener ignored
  dotCount,        \* this._dotButtons.length, 0 without dots
  activeDot,       \* index of the dot carrying is-active, -1 when none
  throttleTimer,   \* throttleTimer of _setupResizeHandler (ms left), -1 when null
  debounceTimer,   \* debounceTimer of _setupResizeHandler (ms left), -1 when none
  rafIndex,        \* currentIndex captured by a pending rAF of _handleResize, -1 when none
  indexAtResize,   \* the current index when the pending resize began, -1 when none
  sinceResize,     \* ms since the last resize event, capped at DebounceDelay
  sinceHandle,     \* ms since _handleResize last ran, capped at ThrottleDelay
  autoplayTimers,  \* active setInterval timers: id -> ms left
  autoplayTimer,   \* this._autoplayTimer: an interval id, 0 when null
  pauseReasons,    \* this._pauseReasons
  lastStep,        \* what the last autoplay tick did, "scroll" or "stop", and the index
                   \* it found when the viewport rested aligned; none after a user's input
  listeners,       \* the event listeners of the instance that are attached
  destroyed,       \* destroy() has returned
  imagesLeft,      \* images of the first slide whose load event checkAllLoaded awaits
  heightSet,       \* this.viewport.style.height has been assigned
  heightRaf        \* the animation frame of _handleResize that assigns the height is pending

envVars == <<innerWidth, viewportWidth, hidden, hover, focusInside>>

optVars == <<jsOptions, cssVars, baseOptions, options, originalCount, trackLen, gapPx, peekPx,
            edgeMargin, rootClasses, responsiveKeys, appliedBreakpoint, markup, track>>

scrollVars == <<scrollLeft, scrollTarget, isAdjusting, scrollTimers, sinceScroll, initPending,
               scrollDir, lastJump, lastNav>>

dotVars == <<dotCount, activeDot>>

resizeVars == <<throttleTimer, debounceTimer, rafIndex, indexAtResize, sinceResize, sinceHandle>>

autoVars == <<autoplayTimers, autoplayTimer, pauseReasons, lastStep>>

lifeVars == <<listeners, destroyed>>

imageVars == <<imagesLeft, heightSet, heightRaf>>

vars == <<envVars, optVars, scrollVars, dotVars, resizeVars, autoVars, lifeVars, imageVars>>

(***************************************************************************)
(* CSS values and _parsePixels                                             *)
(***************************************************************************)
\* a CSS length as the options carry it: '5px' is [n |-> 5, unit |-> "px"]
CssLen(n, unit) == [n |-> n, unit |-> unit]

\* the units /^([\d.]+)(px|%|vw|em)?$/ accepts; "" is a bare number
ParsedUnits == {"px", "%", "vw", "em", ""}

\* _parsePixels(value, base): px, %, vw and em to pixels; 0 when the value
\* does not match
ParsePixels(value, base) ==
  IF value.unit \notin ParsedUnits THEN 0
  ELSE IF value.unit \in {"", "px"} THEN Px(value.n)
  ELSE IF value.unit \in {"%", "vw"} THEN (base * value.n) \div 100
  ELSE Px(value.n * EmPx)

(***************************************************************************)
(* Layout, as the style sheet lays the track out (README, "Layout"):       *)
(* the track has a padding of --ofc-peek on both sides, and each slide is  *)
(* (100% - (itemsVisible - 1) * gap) / itemsVisible of its content width.  *)
(***************************************************************************)
\* the used value of gap: var(--ofc-gap), which the code sets to options.gap
CssGap(opts, W, V, peek) ==
  LET g == opts.gap IN
  IF g.unit = "px" THEN Px(g.n)
  ELSE IF g.unit = "em" THEN Px(g.n * EmPx)
  ELSE IF g.unit = "vw" THEN (W * g.n) \div 100
  ELSE IF g.unit = "%" THEN ((V - 2 * peek) * g.n) \div 100
  ELSE 0

\* first.getBoundingClientRect().width
SlideWidth(opts, W, V, peek) ==
  (V - 2 * peek - (opts.itemsVisible - 1) * CssGap(opts, W, V, peek)) \div opts.itemsVisible

\* firstSlide.offsetWidth: the layout width rounded to an integer pixel
OffsetWidth(w) == Px(RoundDiv(w, Scale))

\* this.track.scrollWidth with len slides, the first and the last of which
\* carry a margin of -margin
TrackScrollWidth(opts, W, V, peek, len, margin) ==
  LET w == SlideWidth(opts, W, V, peek)
      g == CssGap(opts, W, V, peek)
  IN  2 * peek + len * w + (len - 1) * g - 2 * margin

\* the largest scroll offset: scrollWidth - clientWidth, never negative
MaxScrollLeft(opts, W, V, peek, len, margin) ==
  Max(0, TrackScrollWidth(opts, W, V, peek, len, margin) - V)

\* the browser limits an assigned or requested offset to [0, max]
Clamp(x, max) == Min(Max(0, x), max)

(***************************************************************************)
(* Position arithmetic of the code                                         *)
(***************************************************************************)
\* _getStep(): slide width + this._gapPx
GetStep(w, gap) == w + gap

\* _getCurrentIndex()
GetCurrentIndex(left, step, count, peek, infinite) ==
  IF step = 0 \/ count = 0 THEN 0
  ELSE IF infinite
    THEN LET base == step * count - peek
             raw == RoundDiv(left - base, step)
         IN  Mod(Mod(raw, count) + count, count)
    ELSE LET raw == RoundDiv(left, step)
         IN  Min(count - 1, Max(0, raw))

\* _scrollToIndex(index): the offset passed to viewport.scrollTo
ScrollToIndexTarget(index, step, count, peek, infinite) ==
  LET clampedIndex == Min(count - 1, Max(0, index))
      base == IF infinite THEN step * count - peek ELSE 0
  IN  base + step * clampedIndex

\* calculateScrollDistance() of _setupControls
ScrollDistance(w, gap, W) == OffsetWidth(w) + ParsePixels(gap, W)

\* realStartLeft and realEndLeft of the debounced scroll handler
RealStartLeft(step, count, peek) == step * count - peek

RealEndLeft(step, count, peek) == step * count + step * count - peek

\* the offset the debounced scroll handler assigns, left itself when it
\* assigns none
TeleportLeft(left, step, count, peek) ==
  LET maxReal == step * count
      realStartLeft == RealStartLeft(step, count, peek)
      realEndLeft == RealEndLeft(step, count, peek)
  IN  IF left < realStartLeft
        THEN realStartLeft + maxReal + (left - realStartLeft)
      ELSE IF left > realEndLeft
        THEN realStartLeft + (left - realEndLeft)
      ELSE left

(***************************************************************************)
(* The same, of the current state                                          *)
(***************************************************************************)
CurSlideWidth == SlideWidth(options, innerWidth, viewportWidth, peekPx)

CurStep == GetStep(CurSlideWidth, gapPx)

CurMaxLeft == MaxScrollLeft(options, innerWidth, viewportWidth, peekPx, trackLen, edgeMargin)

CurIndex == GetCurrentIndex(scrollLeft, CurStep, originalCount, peekPx, options.infinite)

IndexAt(left) == GetCurrentIndex(left, CurStep, originalCount, peekPx, options.infinite)

(***************************************************************************)
(* Options and responsive settings                                         *)
(***************************************************************************)
\* peekRatio: undefined
NoRatio == [num |-> 0, den |-> 0]

\* responsive: undefined
NoResponsive == [b \in {} |-> [itemsVisible |-> 1]]

\* Object.assign(o, s)
Overlay(o, s) ==
  [k \in DOMAIN o \cup DOMAIN s |-> IF k \in DOMAIN s THEN s[k] ELSE o[k]]

\* the orders in which a caller can write the breakpoints S of a responsive
\* object literal
WrittenOrders(S) ==
  {order \in [1..Cardinality(S) -> S] : \A b \in S : \E i \in DOMAIN order : order[i] = b}

\* the numbers of S in ascending order
RECURSIVE Ascending(_)
Ascending(S) ==
  IF S = {} THEN <<>>
  ELSE LET m == CHOOSE x \in S : \A y \in S : x <= y
       IN  <<m>> \o Ascending(S \ {m})

\* Object.keys(responsive).map(Number): an object enumerates its integer
\* keys in ascending numeric order, whatever the order they were written in
ObjectKeys(written) == Ascending({written[i] : i \in DOMAIN written})

\* x put into the descending sequence sorted, before the first element
\* that is not greater
RECURSIVE InsertDesc(_, _)
InsertDesc(x, sorted) ==
  IF sorted = <<>> THEN <<x>>
  ELSE IF x >= Head(sorted) THEN <<x>> \o sorted
  ELSE <<Head(sorted)>> \o InsertDesc(x, Tail(sorted))

\* the keys as enumerated, not sorted
SortNone(keys) == keys

\* .sort((a, b) => b - a)
RECURSIVE SortDesc(_)
SortDesc(keys) ==
  IF keys = <<>> THEN <<>> ELSE InsertDesc(Head(keys), SortDesc(Tail(keys)))

\* a loop that stops at the first breakpoint that matches
RECURSIVE AppliedBreakpointFirst(_, _, _)
AppliedBreakpointFirst(breakpoints, W, applied) ==
  IF breakpoints = <<>> THEN applied
  ELSE IF W <= Px(Head(breakpoints)) THEN Head(breakpoints)
  ELSE AppliedBreakpointFirst(Tail(breakpoints), W, applied)

\* for (const breakpoint of breakpoints) if (viewportWidth <= breakpoint)
\* appliedBreakpoint = breakpoint; 0 stands for null
RECURSIVE AppliedBreakpoint(_, _, _)
AppliedBreakpoint(breakpoints, W, applied) ==
  IF breakpoints = <<>> THEN applied
  ELSE AppliedBreakpoint(Tail(breakpoints), W,
                         IF W <= Px(Head(breakpoints)) THEN Head(breakpoints) ELSE applied)

\* _applyResponsiveSettings(): the value appliedBreakpoint ends with, for a
\* responsive object whose breakpoints were written in the order written
SelectBreakpoint(written, W) == AppliedBreakpoint(SortDesc(ObjectKeys(written)), W, 0)

\* the breakpoint's settings merged into the options in place
ApplyResponsiveSettingsNoReset(base, written, opts, W) ==
  IF DOMAIN base.responsive = {} THEN opts
  ELSE LET applied == SelectBreakpoint(written, W)
       IN  IF applied # 0 THEN Overlay(opts, base.responsive[applied]) ELSE opts

\* _applyResponsiveSettings(): the new this.options
ApplyResponsiveSettings(base, written, opts, W) ==
  IF DOMAIN base.responsive = {} THEN opts
  ELSE LET reset == Overlay(opts, [k \in DOMAIN base \ {"responsive"} |-> base[k]])
           applied == SelectBreakpoint(written, W)
       IN  IF applied # 0 THEN Overlay(reset, base.responsive[applied]) ELSE reset

\* the peek computed by _setupInfiniteLoop, _setupNonInfiniteMode and
\* _handleResize: from peekRatio, rounded to half a pixel, or from peek
PeekOf(opts, V) ==
  IF opts.peekRatio # NoRatio
    THEN LET r == opts.peekRatio
             d == opts.itemsVisible * r.den + 2 * r.num
         IN  RoundDiv(2 * V * r.num, Scale * d) * (Scale \div 2)
    ELSE ParsePixels(opts.peek, V)

(***************************************************************************)
(* Autoplay timer                                                          *)
(***************************************************************************)
\* no interval
NoTimers == [i \in {} |-> 0]

\* the handle of a new setInterval
FreshId(timers) == CHOOSE i \in 1..(Cardinality(DOMAIN timers) + 1) : i \notin DOMAIN timers

\* _clearAutoplayTimer() on at = [timers, handle]
ClearAutoplayTimer(at) ==
  IF at.handle # 0
    THEN [timers |-> [i \in DOMAIN at.timers \ {at.handle} |-> at.timers[i]], handle |-> 0]
    ELSE at

\* a start of the interval that ignores the pause reasons
StartAutoplayTimerAlways(at, opts, reasons) ==
  IF ~opts.autoplay THEN at
  ELSE LET id == FreshId(at.timers)
       IN  [timers |-> [i \in DOMAIN at.timers \cup {id} |->
                          IF i = id THEN opts.autoplayInterval ELSE at.timers[i]],
            handle |-> id]

\* _startAutoplayTimer()
StartAutoplayTimer(at, opts, reasons) ==
  IF ~opts.autoplay THEN at
  ELSE IF reasons # {} THEN at
  ELSE LET c == ClearAutoplayTimer(at)
           id == FreshId(c.timers)
       IN  [timers |-> [i \in DOMAIN c.timers \cup {id} |->
                          IF i = id THEN opts.autoplayInterval ELSE c.timers[i]],
            handle |-> id]

\* a restart that leaves a running interval alone
RestartAutoplayKeep(at, opts, reasons) ==
  IF at.handle # 0 THEN at ELSE StartAutoplayTimer(at, opts, reasons)

\* _restartAutoplay()
RestartAutoplay(at, opts, reasons) ==
  IF ~opts.autoplay THEN at
  ELSE IF reasons # {} THEN at
  ELSE StartAutoplayTimer(at, opts, reasons)

CurAutoplay == [timers |-> autoplayTimers, handle |-> autoplayTimer]

\* the scroll handler has not run since the offset last changed otherwise
NoJump == [kind |-> "none", from |-> 0]

\* no autoplay tick since the user's last input
NoStep == [kind |-> "none", from |-> -1]

\* no control used since the offset last changed otherwise
NoNav == [from |-> -1, dir |-> 0, dot |-> -1]

(***************************************************************************)
(* The options of the constructor                                          *)
(***************************************************************************)
\* getPropertyValue(...).trim() of a variable no style sets: ''
NoCssValue == [n |-> 0, unit |-> "unset"]

\* the computed style sets none of the four variables
NoCssVars ==
  [itemsVisible |-> NoCssValue, peek |-> NoCssValue, gap |-> NoCssValue, aspect |-> NoCssValue]

\* parseInt(text) and parseFloat(text) as the operand of ||: the leading
\* number of the text, a unit after it dropped; 0 stands for NaN too, both
\* being falsy.  The aspect ratio is counted in hundredths.
ParseNumber(text) == IF text = NoCssValue THEN 0 ELSE text.n

\* the values the constructor falls back to
DefaultItemsVisible == 3

DefaultPeekPx == 60

DefaultGapPx == 5

DefaultAspect == 178

DefaultAutoplayInterval == 3000

\* the object literal before ...options: the CSS variables, else the defaults
Defaults(css) ==
  [itemsVisible |-> IF ParseNumber(css.itemsVisible) # 0 THEN ParseNumber(css.itemsVisible)
                    ELSE DefaultItemsVisible,
   peek |-> IF css.peek # NoCssValue THEN css.peek ELSE CssLen(DefaultPeekPx, "px"),
   peekRatio |-> NoRatio,
   gap |-> IF css.gap # NoCssValue THEN css.gap ELSE CssLen(DefaultGapPx, "px"),
   aspect |-> IF ParseNumber(css.aspect) # 0 THEN ParseNumber(css.aspect) ELSE DefaultAspect,
   aspectAuto |-> FALSE,
   infinite |-> TRUE,
   dots |-> FALSE,
   autoplay |-> FALSE,
   autoplayInterval |-> DefaultAutoplayInterval,
   pauseOnHover |-> TRUE,
   pauseOnFocus |-> TRUE,
   pauseOnVisibility |-> TRUE,
   responsive |-> NoResponsive]

\* a merge in which the CSS variables and the defaults win over the caller
ResolveOptionsCssFirst(js, css) == Overlay(js, Defaults(css))

\* this.options = { ..., ...options }
ResolveOptions(js, css) == Overlay(Defaults(css), js)

\* classList.add / classList.remove of 'ofcarousel--no-peek' for a peek
NoPeekClass(classes, peek) ==
  IF peek = 0 THEN classes \cup {"ofcarousel--no-peek"} ELSE classes \ {"ofcarousel--no-peek"}

\* the listeners the constructor attaches: the buttons, the keyboard and
\* the resize always, the others as the options ask
ListenersOf(opts) ==
  {"prev", "next", "keydown", "resize"}
    \cup (IF opts.infinite THEN {"scroll"} ELSE {})
    \cup (IF opts.dots THEN {"dot", "activeScroll"} ELSE {})
    \cup (IF opts.autoplay /\ opts.pauseOnHover THEN {"mouseenter", "mouseleave"} ELSE {})
    \cup (IF opts.autoplay /\ opts.pauseOnFocus THEN {"focusin", "focusout"} ELSE {})
    \cup (IF opts.autoplay /\ opts.pauseOnVisibility THEN {"visibilitychange"} ELSE {})

(***************************************************************************)
(* Construction                                                            *)
(***************************************************************************)
\* a dot for every slide of the track, clones included
DotButtonCountAll(opts, count, len) == IF opts.dots THEN len ELSE 0

\* count of _setupDots: this._originalCount || track.querySelectorAll('.ofc-slide').length
DotButtonCount(opts, count, len) ==
  IF ~opts.dots THEN 0
  ELSE IF count # 0 THEN count ELSE len

\* a track that gets the clones in both modes
TrackLengthCloned(opts, n) == 3 * n

\* the slides of the track after _setupInfiniteLoop, which inserts a clone
\* of every slide before and after them, or _setupNonInfiniteMode, which
\* inserts none
TrackLength(opts, n) == IF opts.infinite THEN 3 * n ELSE n

\* child number i of the track in the page's markup, with the ofc-slide
\* class or without it; slide is its place among the originals, clone tells a
\* node made by cloneNode from the node of the markup
Child(i, marked) == [slide |-> i, clone |-> FALSE, class |-> marked, ariaHidden |-> FALSE]

\* a track of n children that all carry the class, as in the documented markup
Marked(n) == [i \in 1..n |-> Child(i - 1, TRUE)]

\* _ensureSlideElements(): child.classList.add('ofc-slide') where it is missing
EnsureSlideElements(children) ==
  [i \in DOMAIN children |-> [children[i] EXCEPT !.class = TRUE]]

\* originalSlides[i].cloneNode(true), then setAttribute('aria-hidden', 'true')
CloneOf(slide) == [slide EXCEPT !.clone = TRUE, !.ariaHidden = TRUE]

\* a loop that appends each clone to the start fragment
RECURSIVE StartFragmentAppended(_, _, _)
StartFragmentAppended(slides, i, fragment) ==
  IF i < 1 THEN fragment
  ELSE StartFragmentAppended(slides, i - 1, Append(fragment, CloneOf(slides[i])))

\* for (i = length - 1; i >= 0; i--) startFragment.insertBefore(clone,
\* startFragment.firstChild), from slide i down (sequences count from 1)
RECURSIVE StartFragment(_, _, _)
StartFragment(slides, i, fragment) ==
  IF i < 1 THEN fragment
  ELSE StartFragment(slides, i - 1, <<CloneOf(slides[i])>> \o fragment)

\* for (i = 0; i < length; i++) endFragment.appendChild(clone), from slide i up
RECURSIVE EndFragment(_, _, _)
EndFragment(slides, i, fragment) ==
  IF i > Len(slides) THEN fragment
  ELSE EndFragment(slides, i + 1, Append(fragment, CloneOf(slides[i])))

\* the children of the track after _setupInfiniteLoop, which puts the start
\* fragment before the first child and the end fragment after the last, or
\* after _setupNonInfiniteMode
TrackOf(opts, children) ==
  LET originalSlides == EnsureSlideElements(children)
  IN  IF opts.infinite
        THEN StartFragment(originalSlides, Len(originalSlides), <<>>) \o originalSlides
               \o EndFragment(originalSlides, 1, <<>>)
        ELSE originalSlides

\* the state new OverflowCarousel(root, js) leaves, for a root whose computed
\* style carries the variables css, a track with the given children, a
\* window W wide whose viewport is V wide, the page hidden or not, and a
\* first slide with pending images that are still loading
ConstructedFrom(js, css, children, W, V, isHidden, pending) ==
  \E written \in WrittenOrders(DOMAIN ResolveOptions(js, css).responsive) :
  LET userOptions == ResolveOptions(js, css)
      n == Len(children)
      opts == ApplyResponsiveSettings(userOptions, written, userOptions, W)
      gap == ParsePixels(opts.gap, W)
      peek == PeekOf(opts, V)
      len == TrackLength(opts, n)
      step == GetStep(SlideWidth(opts, W, V, peek), gap)
      started == IF opts.autoplay
                   THEN StartAutoplayTimer([timers |-> NoTimers, handle |-> 0], opts, {})
                   ELSE [timers |-> NoTimers, handle |-> 0]
  IN  /\ jsOptions = js
      /\ cssVars = css
      /\ baseOptions = userOptions
      /\ options = opts
      /\ innerWidth = W
      /\ viewportWidth = V
      /\ hidden = isHidden
      /\ hover = FALSE
      /\ focusInside = FALSE
      /\ originalCount = n
      /\ trackLen = len
      /\ markup = children
      /\ track = TrackOf(opts, children)
      /\ gapPx = gap
      /\ peekPx = peek
      /\ edgeMargin = IF opts.infinite THEN 0 ELSE peek
      /\ rootClasses = NoPeekClass(IF opts.aspectAuto THEN {"ofcarousel--aspect-auto"} ELSE {},
                                   peek)
      /\ responsiveKeys = written
      /\ appliedBreakpoint = SelectBreakpoint(written, W)
      /\ scrollLeft = 0
      /\ scrollTarget = -1
      /\ isAdjusting = FALSE
      /\ scrollTimers = {}
      /\ sinceScroll = ScrollDebounceMs
      /\ initPending = opts.infinite
      /\ scrollDir = 0
      /\ lastJump = NoJump
      /\ lastNav = NoNav
      /\ dotCount = DotButtonCount(opts, n, len)
      /\ activeDot = IF opts.dots
                       THEN GetCurrentIndex(0, step, n, peek, opts.infinite)
                       ELSE -1
      /\ throttleTimer = -1
      /\ debounceTimer = -1
      /\ rafIndex = -1
      /\ indexAtResize = -1
      /\ sinceResize = DebounceDelay
      /\ sinceHandle = ThrottleDelay
      /\ autoplayTimers = started.timers
      /\ autoplayTimer = started.handle
      /\ pauseReasons = {}
      /\ lastStep = NoStep
      /\ listeners = ListenersOf(opts)
      /\ destroyed = FALSE
      /\ imagesLeft = IF opts.aspectAuto THEN pending ELSE 0
      /\ heightSet = (opts.aspectAuto /\ pending = 0)
      /\ heightRaf = FALSE

\* the same for a track of n children that carry the ofc-slide class
ConstructedWith(js, css, n, W, V, isHidden, pending) ==
  ConstructedFrom(js, css, Marked(n), W, V, isHidden, pending)

\* the same for a caller that passes every option, a root without the
\* variables and a first slide whose images have loaded
Constructed(userOptions, n, W, V, isHidden) ==
  ConstructedWith(userOptions, NoCssVars, n, W, V, isHidden, 0)

(***************************************************************************)
(* Scroll events                                                           *)
(***************************************************************************)
\* a scroll listener that leaves the pending timeouts alone
ClearTimeoutNone(timers) == timers

\* clearTimeout(this._scrollTimer): the handle names the timeout set last,
\* the one with the most time left
ClearTimeout(timers) ==
  IF timers = {} THEN {}
  ELSE timers \ {CHOOSE t \in timers : \A u \in timers : u <= t}

\* _onScroll, the listener _setupScrollJump registers in infinite mode
OnScroll(timers, adjusting, opts) ==
  IF ~opts.infinite THEN timers
  ELSE IF adjusting THEN timers
  ELSE ClearTimeout(timers) \cup {ScrollDebounceMs}

\* the direction of a scroll from offset from to offset to
DirOf(from, to) == IF to > from THEN 1 ELSE IF to < from THEN -1 ELSE 0

\* the offset becomes left; when that changes it, the browser dispatches a
\* scroll event to the listeners attached; index is _getCurrentIndex() at left
Dispatch(left, index, timers) ==
  /\ scrollLeft' = left
  /\ IF left # scrollLeft
       THEN /\ scrollTimers' = IF "scroll" \in listeners
                                 THEN OnScroll(timers, isAdjusting, options)
                                 ELSE timers
            /\ sinceScroll' = 0
            /\ scrollDir' = DirOf(scrollLeft, left)
            /\ activeDot' = IF "activeScroll" \in listeners /\ dotCount > 0
                              THEN index ELSE activeDot
       ELSE /\ scrollTimers' = timers
            /\ UNCHANGED <<sinceScroll, scrollDir, activeDot>>

MoveTo(left, timers) == Dispatch(left, IndexAt(left), timers)

\* no smooth scroll, no pending handler and no pending animation frame
Settled ==
  /\ ~initPending
  /\ scrollTarget = -1
  /\ scrollTimers = {}
  /\ rafIndex = -1

\* the requestAnimationFrame callback of _setupInfiniteLoop: skip the
\* leading clones
InitPosition ==
  /\ initPending
  /\ initPending' = FALSE
  /\ IF CurStep > 0
       THEN MoveTo(Clamp(CurStep * originalCount - peekPx, CurMaxLeft), scrollTimers)
       ELSE UNCHANGED <<scrollLeft, scrollTimers, sinceScroll, scrollDir, activeDot>>
  /\ UNCHANGED <<scrollTarget, isAdjusting, lastJump, lastNav, dotCount>>
  /\ UNCHANGED <<envVars, optVars, resizeVars, autoVars, lifeVars, imageVars>>

\* the offsets a drag, a wheel or a touch scroll can leave the viewport at
UserOffsets == {Px(p) : p \in 0..(CurMaxLeft \div Scale)} \cup {CurMaxLeft}

\* the user scrolls the viewport to x; a smooth scroll in progress ends
UserScroll ==
  /\ ~initPending
  /\ rafIndex = -1
  /\ \E x \in UserOffsets :
       /\ x # scrollLeft
       /\ MoveTo(x, scrollTimers)
  /\ scrollTarget' = -1
  /\ lastJump' = NoJump
  /\ lastNav' = NoNav
  /\ UNCHANGED <<isAdjusting, initPending, dotCount>>
  /\ indexAtResize' = -1
  /\ UNCHANGED <<throttleTimer, debounceTimer, rafIndex, sinceResize, sinceHandle>>
  /\ UNCHANGED <<envVars, optVars, autoVars, lifeVars, imageVars>>

\* a frame of a smooth scroll: the offset reaches the target
SmoothFrame ==
  /\ scrollTarget # -1
  /\ MoveTo(Clamp(scrollTarget, CurMaxLeft), scrollTimers)
  /\ scrollTarget' = -1
  /\ lastJump' = NoJump
  /\ UNCHANGED lastNav
  /\ UNCHANGED <<isAdjusting, initPending, dotCount>>
  /\ indexAtResize' = -1
  /\ UNCHANGED <<throttleTimer, debounceTimer, rafIndex, sinceResize, sinceHandle>>
  /\ UNCHANGED <<envVars, optVars, autoVars, lifeVars, imageVars>>

\* the timeout callback of _onScroll: teleport out of the clones, then
\* update the active dot
ScrollTimerFire ==
  /\ 0 \in scrollTimers
  /\ LET left == scrollLeft
         newLeft == TeleportLeft(left, CurStep, originalCount, peekPx)
         assigned == Clamp(newLeft, CurMaxLeft)
         kind == IF left < RealStartLeft(CurStep, originalCount, peekPx) THEN "start"
                 ELSE IF left > RealEndLeft(CurStep, originalCount, peekPx) THEN "end"
                 ELSE "stay"
     IN  /\ scrollLeft' = assigned
         /\ lastJump' = [kind |-> kind, from |-> left]
         /\ UNCHANGED lastNav
         /\ activeDot' = IF dotCount > 0 THEN IndexAt(assigned) ELSE activeDot
         /\ IF assigned # left
              THEN /\ scrollTimers' = IF "scroll" \in listeners
                                        THEN OnScroll(scrollTimers \ {0}, isAdjusting, options)
                                        ELSE scrollTimers \ {0}
                   /\ sinceScroll' = 0
                   /\ scrollDir' = DirOf(left, assigned)
              ELSE /\ scrollTimers' = scrollTimers \ {0}
                   /\ UNCHANGED <<sinceScroll, scrollDir>>
  /\ scrollTarget' = IF scrollLeft' # scrollLeft THEN -1 ELSE scrollTarget
  /\ UNCHANGED <<isAdjusting, initPending, dotCount>>
  /\ UNCHANGED <<envVars, optVars, resizeVars, autoVars, lifeVars, imageVars>>

(***************************************************************************)
(* Controls and dots                                                       *)
(***************************************************************************)
\* viewport.scrollBy / scrollTo with behavior 'smooth': the scroll is in
\* progress until a frame reaches the target; none starts when the offset
\* is at the target already
SmoothScrollTo(x) ==
  LET target == Clamp(x, CurMaxLeft)
  IN  scrollTarget' = IF target = scrollLeft THEN -1 ELSE target

\* this._restartAutoplay() called by a control
Restarted ==
  LET at == RestartAutoplay(CurAutoplay, options, pauseReasons)
  IN  /\ autoplayTimers' = at.timers
      /\ autoplayTimer' = at.handle
      /\ lastStep' = NoStep
      /\ UNCHANGED pauseReasons

CurScrollDistance == ScrollDistance(CurSlideWidth, options.gap, innerWidth)

\* the offset shows a slide at the start of the viewport: a snap position
Aligned ==
  \E j \in 0..(trackLen - 1) :
    scrollLeft = j * CurStep - (IF options.infinite THEN peekPx ELSE 0)

\* what a prev (-1) or next (1) records: the index it starts from when the
\* viewport rests aligned on a slide
NavFrom(dir) ==
  IF Settled /\ Aligned THEN [from |-> CurIndex, dir |-> dir, dot |-> -1] ELSE NoNav

\* click on .ofc-prev
PrevClick ==
  /\ ~initPending
  /\ rafIndex = -1
  /\ "prev" \in listeners
  /\ SmoothScrollTo(scrollLeft - CurScrollDistance)
  /\ Restarted
  /\ UNCHANGED <<scrollLeft, isAdjusting, scrollTimers, sinceScroll, initPending, scrollDir,
               lastJump>>
  /\ lastNav' = NavFrom(-1)
  /\ UNCHANGED <<envVars, optVars, dotVars, resizeVars, lifeVars, imageVars>>

\* click on .ofc-next
NextClick ==
  /\ ~initPending
  /\ rafIndex = -1
  /\ "next" \in listeners
  /\ SmoothScrollTo(scrollLeft + CurScrollDistance)
  /\ Restarted
  /\ UNCHANGED <<scrollLeft, isAdjusting, scrollTimers, sinceScroll, initPending, scrollDir,
               lastJump>>
  /\ lastNav' = NavFrom(1)
  /\ UNCHANGED <<envVars, optVars, dotVars, resizeVars, lifeVars, imageVars>>

Keys == {"ArrowLeft", "ArrowRight", "Enter"}

\* the direction an arrow key names, 0 for another key
ArrowDir(key) == IF key = "ArrowLeft" THEN -1 ELSE IF key = "ArrowRight" THEN 1 ELSE 0

\* a keyboard listener that does not look at the focus
KeyDirAnywhere(key, inside) == ArrowDir(key)

\* _keyboardListener: the direction it scrolls in, 0 when it does nothing;
\* inside is root.contains(document.activeElement)
KeyDir(key, inside) == IF ~inside THEN 0 ELSE ArrowDir(key)

\* what an arrow key the listener ignored records
IgnoredKey(key) == [from |-> -1, dir |-> ArrowDir(key), dot |-> -1]

\* keydown of key on the document, heard by _keyboardListener
KeyDownOf(key) ==
  /\ ~initPending
  /\ rafIndex = -1
  /\ "keydown" \in listeners
  /\ LET dir == KeyDir(key, focusInside)
     IN  IF dir # 0
           THEN /\ SmoothScrollTo(scrollLeft + dir * CurScrollDistance)
                /\ Restarted
                /\ lastNav' = NavFrom(dir)
           ELSE /\ lastNav' = IgnoredKey(key)
                /\ UNCHANGED <<scrollTarget, autoVars>>
  /\ UNCHANGED <<scrollLeft, isAdjusting, scrollTimers, sinceScroll, initPending, scrollDir,
               lastJump>>
  /\ UNCHANGED <<envVars, optVars, dotVars, resizeVars, lifeVars, imageVars>>

\* a key is pressed
KeyDown == \E key \in Keys : KeyDownOf(key)

\* click on dot i: _scrollToIndex(i), then _restartAutoplay()
DotClick ==
  /\ ~initPending
  /\ rafIndex = -1
  /\ "dot" \in listeners
  /\ \E i \in 0..(dotCount - 1) :
       /\ IF CurStep = 0 THEN UNCHANGED scrollTarget
          ELSE SmoothScrollTo(ScrollToIndexTarget(i, CurStep, originalCount, peekPx,
                                                  options.infinite))
       /\ lastNav' = [from |-> -1, dir |-> 0, dot |-> i]
  /\ Restarted
  /\ UNCHANGED <<scrollLeft, isAdjusting, scrollTimers, sinceScroll, initPending, scrollDir,
               lastJump>>
  /\ UNCHANGED <<envVars, optVars, dotVars, resizeVars, lifeVars, imageVars>>

(***************************************************************************)
(* Time                                                                    *)
(***************************************************************************)
\* the grain of time: the largest delay that divides every timer's delay
TickMs == Gcd(Gcd(ScrollDebounceMs, ThrottleDelay), DebounceDelay)

Elapse(t) == IF t > 0 THEN t - TickMs ELSE t

\* a timeout or an interval is due
TimerDue ==
  \/ 0 \in scrollTimers
  \/ throttleTimer = 0
  \/ debounceTimer = 0
  \/ \E i \in DOMAIN autoplayTimers : autoplayTimers[i] = 0

\* TickMs pass with no event; due timers and animation frames come first
Tick ==
  /\ ~TimerDue
  /\ ~initPending
  /\ scrollTarget = -1
  /\ rafIndex = -1
  /\ scrollTimers' = {Elapse(t) : t \in scrollTimers}
  /\ sinceScroll' = Min(sinceScroll + TickMs, ScrollDebounceMs)
  /\ scrollDir' = IF sinceScroll' = ScrollDebounceMs THEN 0 ELSE scrollDir
  /\ throttleTimer' = Elapse(throttleTimer)
  /\ debounceTimer' = Elapse(debounceTimer)
  /\ sinceResize' = Min(sinceResize + TickMs, DebounceDelay)
  /\ sinceHandle' = Min(sinceHandle + TickMs, ThrottleDelay)
  /\ autoplayTimers' = [i \in DOMAIN autoplayTimers |-> Elapse(autoplayTimers[i])]
  /\ UNCHANGED <<scrollLeft, scrollTarget, isAdjusting, initPending, lastJump, lastNav>>
  /\ UNCHANGED <<rafIndex, indexAtResize, autoplayTimer, pauseReasons, lastStep>>
  /\ UNCHANGED <<envVars, optVars, dotVars, lifeVars, imageVars>>

(***************************************************************************)
(* Resize                                                                  *)
(***************************************************************************)
\* the widths a resize switches the viewport between
ResizeWidths == {Px(ViewportPx), Px(ViewportPx + GrowPx)}

\* a resize is being handled: a timer of _onResize or an animation frame of
\* _handleResize is pending
ResizePending == throttleTimer # -1 \/ debounceTimer # -1 \/ rafIndex # -1

\* the distance between two slides as laid out
Pitch(opts, W, V, peek) == SlideWidth(opts, W, V, peek) + CssGap(opts, W, V, peek)

\* the offsets the browser may leave the viewport at when the layout changes
\* to widths W and V: the old offset, or the offset of the slide it was
\* snapped to, both limited to the new range
RelaidOffsets(W, V) ==
  LET max == MaxScrollLeft(options, W, V, peekPx, trackLen, edgeMargin)
      lead == IF options.infinite THEN peekPx ELSE 0
      old == Pitch(options, innerWidth, viewportWidth, peekPx)
      new == Pitch(options, W, V, peekPx)
  IN  {Clamp(scrollLeft, max)} \cup
      {Clamp(j * new - lead, max) : j \in {i \in 0..(trackLen - 1) : scrollLeft = i * old - lead}}

\* if (!throttleTimer) throttleTimer = setTimeout(..., throttleDelay)
SetThrottle(timer) == IF timer = -1 THEN ThrottleDelay ELSE timer

\* a debounce that leaves a pending timeout alone
SetDebounceOnce(timer) == IF timer = -1 THEN DebounceDelay ELSE timer

\* clearTimeout(debounceTimer); debounceTimer = setTimeout(..., debounceDelay)
SetDebounce(timer) == DebounceDelay

\* the window is resized, the viewport keeping its distance to the window's
\* edges: the browser lays the track out again, then calls _onResize
ResizeEvent ==
  /\ ~initPending
  /\ scrollTarget = -1
  /\ \E V \in ResizeWidths \ {viewportWidth} :
       LET W == V + (innerWidth - viewportWidth)
       IN  /\ viewportWidth' = V
           /\ innerWidth' = W
           /\ \E left \in RelaidOffsets(W, V) :
                Dispatch(left,
                         GetCurrentIndex(left, GetStep(SlideWidth(options, W, V, peekPx), gapPx),
                                         originalCount, peekPx, options.infinite),
                         scrollTimers)
  /\ IF "resize" \in listeners
       THEN /\ throttleTimer' = SetThrottle(throttleTimer)
            /\ debounceTimer' = SetDebounce(debounceTimer)
       ELSE UNCHANGED <<throttleTimer, debounceTimer>>
  /\ indexAtResize' = IF ResizePending THEN indexAtResize ELSE CurIndex
  /\ sinceResize' = 0
  /\ lastJump' = NoJump
  /\ lastNav' = NoNav
  /\ UNCHANGED <<rafIndex, sinceHandle, scrollTarget, isAdjusting, initPending, dotCount>>
  /\ UNCHANGED <<hidden, hover, focusInside, optVars, autoVars, lifeVars, imageVars>>

\* _handleResize(): re-evaluate the responsive settings, take the current
\* index, recompute peek and gap, and ask for an animation frame that
\* scrolls back to that index
HandleResize ==
  LET W == innerWidth
      V == viewportWidth
      opts == ApplyResponsiveSettings(baseOptions, responsiveKeys, options, W)
      \* _getCurrentIndex() lays the track out with the new --ofc-items-visible
      \* and --ofc-gap, and still the old --ofc-peek and this._gapPx
      left1 == Clamp(scrollLeft, MaxScrollLeft(opts, W, V, peekPx, trackLen, edgeMargin))
      currentIndex == GetCurrentIndex(left1, GetStep(SlideWidth(opts, W, V, peekPx), gapPx),
                                      originalCount, peekPx, opts.infinite)
      peek == PeekOf(opts, V)
      gap == ParsePixels(opts.gap, V)
      left2 == Clamp(left1, MaxScrollLeft(opts, W, V, peek, trackLen, edgeMargin))
  IN  /\ rafIndex = -1
      /\ options' = opts
      /\ peekPx' = peek
      /\ rootClasses' = NoPeekClass(rootClasses, peek)
      /\ appliedBreakpoint' = SelectBreakpoint(responsiveKeys, W)
      /\ gapPx' = gap
      /\ rafIndex' = currentIndex
      /\ heightRaf' = opts.aspectAuto
      /\ sinceHandle' = 0
      /\ Dispatch(left2,
                  GetCurrentIndex(left2, GetStep(SlideWidth(opts, W, V, peek), gap),
                                  originalCount, peek, opts.infinite),
                  scrollTimers)
      /\ lastJump' = NoJump
      /\ lastNav' = NoNav
      /\ UNCHANGED <<indexAtResize, sinceResize, scrollTarget, isAdjusting, initPending,
                     dotCount>>
      /\ UNCHANGED <<jsOptions, cssVars, baseOptions, originalCount, trackLen, edgeMargin,
                     responsiveKeys, markup, track>>
      /\ UNCHANGED <<envVars, autoVars, lifeVars, imagesLeft, heightSet>>

\* the throttle timeout of _onResize
ThrottleFire ==
  /\ throttleTimer = 0
  /\ HandleResize
  /\ throttleTimer' = -1
  /\ UNCHANGED debounceTimer

\* the debounce timeout of _onResize
DebounceFire ==
  /\ debounceTimer = 0
  /\ HandleResize
  /\ debounceTimer' = -1
  /\ UNCHANGED throttleTimer

\* the first animation frame of _handleResize with aspectAuto: the height
\* of the first slide, which is laid out and so is not 0, goes to the viewport
RafHeight ==
  /\ heightRaf
  /\ heightRaf' = FALSE
  /\ heightSet' = TRUE
  /\ UNCHANGED imagesLeft
  /\ UNCHANGED <<envVars, optVars, scrollVars, dotVars, resizeVars, autoVars, lifeVars>>

\* the animation frame of _handleResize: _scrollToIndex(currentIndex, 'instant')
RafRestore ==
  /\ rafIndex # -1
  /\ ~heightRaf
  /\ rafIndex' = -1
  /\ IF CurStep = 0
       THEN UNCHANGED <<scrollLeft, scrollTimers, sinceScroll, scrollDir, activeDot>>
       ELSE MoveTo(Clamp(ScrollToIndexTarget(rafIndex, CurStep, originalCount, peekPx,
                                             options.infinite), CurMaxLeft),
                   scrollTimers)
  /\ scrollTarget' = -1
  /\ lastJump' = NoJump
  /\ lastNav' = NoNav
  /\ UNCHANGED <<throttleTimer, debounceTimer, indexAtResize, sinceResize, sinceHandle>>
  /\ UNCHANGED <<isAdjusting, initPending, dotCount>>
  /\ UNCHANGED <<envVars, optVars, autoVars, lifeVars, imageVars>>

(***************************************************************************)
(* Inputs                                                                  *)
(***************************************************************************)
\* the options object after the constructor's defaults and the caller's
\* options are merged
MakeOptions(k, gap, peek, ratio, inf, dots, auto, interval, reasons, resp) ==
  [itemsVisible |-> k, gap |-> gap, peek |-> peek, peekRatio |-> ratio,
   infinite |-> inf, dots |-> dots, autoplay |-> auto, autoplayInterval |-> interval,
   pauseOnHover |-> "hover" \in reasons, pauseOnFocus |-> "focus" \in reasons,
   pauseOnVisibility |-> "visibility" \in reasons, responsive |-> resp]

\* one gap per unit _parsePixels accepts
GapChoices ==
  {CssLen(GapN, "px"), CssLen(PercentN, "%"), CssLen(PercentN, "vw"), CssLen(1, "em")}

PeekChoices == {CssLen(0, "px"), CssLen(PeekN, "px")}

AllReasons == {"hover", "focus", "visibility"}

\* the style sheet can lay the slides out: they are at least a pixel wide
ValidLayout(opts, W, V) == SlideWidth(opts, W, V, PeekOf(opts, V)) >= Px(1)

(***************************************************************************)
(* Autoplay and its pauses                                                 *)
(***************************************************************************)
\* the bound of this._scrollByStep's "reached the end" test: one pixel
EndSlack == Px(1)

\* an autoplay that goes on at the end of the track
StopsNever(opts, clamped, left) == FALSE

\* _scrollByStep: !this.options.infinite && Math.abs(clamped - scrollLeft) < 1
StopsAtEnd(opts, clamped, left) == ~opts.infinite /\ Abs(clamped - left) < EndSlack

\* the setInterval callback of _startAutoplayTimer: _scrollByStep(1)
AutoplayFire ==
  \E id \in DOMAIN autoplayTimers :
    /\ autoplayTimers[id] = 0
    /\ LET step == CurStep
           target == scrollLeft + step
           clamped == Min(Max(0, target), CurMaxLeft)
           stops == StopsAtEnd(options, clamped, scrollLeft)
           rearmed == [timers |-> [autoplayTimers EXCEPT ![id] = options.autoplayInterval],
                       handle |-> autoplayTimer]
           at == IF step # 0 /\ stops THEN ClearAutoplayTimer(rearmed) ELSE rearmed
           from == IF Settled /\ Aligned THEN CurIndex ELSE -1
       IN  /\ autoplayTimers' = at.timers
           /\ autoplayTimer' = at.handle
           /\ IF step = 0 \/ stops THEN UNCHANGED scrollTarget ELSE SmoothScrollTo(clamped)
           /\ lastStep' = [kind |-> IF step # 0 /\ stops THEN "stop" ELSE "scroll",
                           from |-> from]
    /\ lastNav' = NoNav
    /\ UNCHANGED <<scrollLeft, isAdjusting, scrollTimers, sinceScroll, initPending, scrollDir,
               lastJump>>
    /\ UNCHANGED pauseReasons
    /\ UNCHANGED <<envVars, optVars, dotVars, resizeVars, lifeVars, imageVars>>

\* a pause handler of _setupAutoplay: add the reason, _clearAutoplayTimer();
\* the handlers are registered for the options given at construction
Paused(reason) ==
  LET at == ClearAutoplayTimer(CurAutoplay)
  IN  /\ pauseReasons' = pauseReasons \cup {reason}
      /\ autoplayTimers' = at.timers
      /\ autoplayTimer' = at.handle

\* a resume handler that deletes the reason and starts nothing
ResumedIdle(reason) ==
  /\ pauseReasons' = pauseReasons \ {reason}
  /\ UNCHANGED <<autoplayTimers, autoplayTimer>>

\* a resume handler of _setupAutoplay: delete the reason, _startAutoplayTimer()
Resumed(reason) ==
  LET at == StartAutoplayTimer(CurAutoplay, options, pauseReasons \ {reason})
  IN  /\ pauseReasons' = pauseReasons \ {reason}
      /\ autoplayTimers' = at.timers
      /\ autoplayTimer' = at.handle

\* the pointer enters the carousel: _onMouseEnter
MouseEnter ==
  /\ ~hover
  /\ hover' = TRUE
  /\ IF "mouseenter" \in listeners
       THEN Paused("hover")
       ELSE UNCHANGED <<pauseReasons, autoplayTimers, autoplayTimer>>
  /\ lastStep' = NoStep
  /\ UNCHANGED <<innerWidth, viewportWidth, hidden, focusInside>>
  /\ UNCHANGED <<optVars, scrollVars, dotVars, resizeVars, lifeVars, imageVars>>

\* the pointer leaves the carousel: _onMouseLeave
MouseLeave ==
  /\ hover
  /\ hover' = FALSE
  /\ IF "mouseleave" \in listeners
       THEN Resumed("hover")
       ELSE UNCHANGED <<pauseReasons, autoplayTimers, autoplayTimer>>
  /\ lastStep' = NoStep
  /\ UNCHANGED <<innerWidth, viewportWidth, hidden, focusInside>>
  /\ UNCHANGED <<optVars, scrollVars, dotVars, resizeVars, lifeVars, imageVars>>

\* the page is hidden or shown: _onVisibilityChange
VisibilityChange ==
  /\ hidden' = ~hidden
  /\ IF "visibilitychange" \in listeners
       THEN IF hidden' THEN Paused("visibility") ELSE Resumed("visibility")
       ELSE UNCHANGED <<pauseReasons, autoplayTimers, autoplayTimer>>
  /\ lastStep' = NoStep
  /\ UNCHANGED <<innerWidth, viewportWidth, hover, focusInside>>
  /\ UNCHANGED <<optVars, scrollVars, dotVars, resizeVars, lifeVars, imageVars>>

\* focus moves into the carousel: focusin on the root
FocusIn ==
  /\ ~focusInside
  /\ focusInside' = TRUE
  /\ IF "focusin" \in listeners
       THEN Paused("focus")
       ELSE UNCHANGED <<pauseReasons, autoplayTimers, autoplayTimer>>
  /\ lastStep' = NoStep
  /\ UNCHANGED <<innerWidth, viewportWidth, hidden, hover>>
  /\ UNCHANGED <<optVars, scrollVars, dotVars, resizeVars, lifeVars, imageVars>>

\* focus leaves the carousel: focusout on the root
FocusOut ==
  /\ focusInside
  /\ focusInside' = FALSE
  /\ IF "focusout" \in listeners
       THEN Resumed("focus")
       ELSE UNCHANGED <<pauseReasons, autoplayTimers, autoplayTimer>>
  /\ lastStep' = NoStep
  /\ UNCHANGED <<innerWidth, viewportWidth, hidden, hover>>
  /\ UNCHANGED <<optVars, scrollVars, dotVars, resizeVars, lifeVars, imageVars>>

(***************************************************************************)
(* Spec: free scrolling and teleporting in infinite mode                   *)
(***************************************************************************)
Init ==
  \E n \in 1..MaxSlides, k \in 1..MaxVisible, gap \in GapChoices, peek \in PeekChoices,
     dots \in BOOLEAN :
    LET o == MakeOptions(k, gap, peek, NoRatio, TRUE, dots, FALSE, 0, AllReasons,
                         NoResponsive)
    IN  /\ ValidLayout(o, Px(ViewportPx), Px(ViewportPx))
        /\ Constructed(o, n, Px(ViewportPx), Px(ViewportPx), FALSE)

Next ==
  \/ InitPosition
  \/ UserScroll
  \/ ScrollTimerFire
  \/ Tick

Spec == Init /\ [][Next]_vars

(***************************************************************************)
(* Claims about teleporting                                                *)
(***************************************************************************)
\* this._gapPx is the gap the style sheet lays out, so that _getStep() is
\* the distance between two slides
StepAccurate == gapPx = CssGap(options, innerWidth, viewportWidth, peekPx)

\* the offset lies in [N*step - peek, 2N*step - peek]
InRealRange ==
  /\ scrollLeft >= RealStartLeft(CurStep, originalCount, peekPx)
  /\ scrollLeft <= RealEndLeft(CurStep, originalCount, peekPx)

\* the scroll handler has just run
HandlerRan == lastJump.kind # "none"

\* the scroll handler has just assigned the offset
Teleported == lastJump.kind \in {"start", "end"}

\* C1: in infinite mode, with step the slide pitch and peek <= itemsVisible *
\* step, the offset lies in the real-slide range whenever the debounced
\* scroll handler has run
C1_RealRange ==
  (/\ HandlerRan
   /\ options.infinite
   /\ StepAccurate
   /\ peekPx <= options.itemsVisible * CurStep) => InRealRange

\* C2: a teleport moves the offset by exactly N*step, forward out of the
\* leading clones and backward out of the trailing ones, and leaves
\* _getCurrentIndex() unchanged
C2_TeleportKeepsIndex ==
  Teleported =>
    /\ scrollLeft = lastJump.from + (IF lastJump.kind = "start" THEN 1 ELSE -1)
                                    * originalCount * CurStep
    /\ IndexAt(scrollLeft) = IndexAt(lastJump.from)

\* C3: every pending run of the scroll handler is due exactly 100 ms after
\* the last scroll event, whatever arrived before, and the handler runs only
\* when 100 ms have passed without a scroll event
C3_Debounced ==
  /\ [](\A t \in scrollTimers : t = ScrollDebounceMs - sinceScroll)
  /\ [](Cardinality(scrollTimers) <= 1)
  /\ [][ScrollTimerFire => sinceScroll = ScrollDebounceMs]_vars

\* a teleport has happened, and the scroll event it raised started a new wait
C3_Witness ==
  /\ Teleported
  /\ scrollTimers = {ScrollDebounceMs}
  /\ sinceScroll = 0

(***************************************************************************)
(* SpecNav: controls and dots, in both modes, without autoplay             *)
(***************************************************************************)
InitNav ==
  \E n \in 1..MaxSlides, k \in 1..MaxVisible, gap \in GapChoices, peek \in PeekChoices,
     inf \in BOOLEAN, dots \in BOOLEAN :
    LET o == MakeOptions(k, gap, peek, NoRatio, inf, dots, FALSE, 0, AllReasons,
                         NoResponsive)
    IN  /\ ValidLayout(o, Px(ViewportPx), Px(ViewportPx))
        /\ Constructed(o, n, Px(ViewportPx), Px(ViewportPx), FALSE)

NextNav ==
  \/ InitPosition
  \/ SmoothFrame
  \/ ScrollTimerFire
  \/ PrevClick
  \/ NextClick
  \/ KeyDown
  \/ DotClick
  \/ FocusIn
  \/ FocusOut
  \/ Tick

SpecNav == InitNav /\ [][NextNav]_vars

(***************************************************************************)
(* SpecResize: resizing across a responsive breakpoint                     *)
(***************************************************************************)
\* the breakpoint of the responsive option: the narrow window matches it,
\* the wide one does not
Breakpoint == ViewportPx + MarginPx

ResponsiveChoices ==
  {NoResponsive, Breakpoint :> [itemsVisible |-> 1, gap |-> CssLen(0, "px")]}

\* the options in effect at some width: the base or a breakpoint's overlay
Variants(o) == {o} \cup {Overlay(o, o.responsive[b]) : b \in DOMAIN o.responsive}

\* every layout a resize can produce is valid
ValidLayouts(o, margin) ==
  \A V \in ResizeWidths, v \in Variants(o) : ValidLayout(v, V + margin, V)

InitResize ==
  \E k \in 1..2, gap \in GapChoices, inf \in BOOLEAN, resp \in ResponsiveChoices :
    LET margin == Px(MarginPx)
        o == MakeOptions(k, gap, CssLen(PeekN, "px"), NoRatio, inf, TRUE, FALSE, 0,
                         AllReasons, resp)
    IN  /\ ValidLayouts(o, margin)
        /\ Constructed(o, MaxSlides, Px(ViewportPx) + margin, Px(ViewportPx), FALSE)

NextResize ==
  \/ InitPosition
  \/ SmoothFrame
  \/ ScrollTimerFire
  \/ NextClick
  \/ ResizeEvent
  \/ ThrottleFire
  \/ DebounceFire
  \/ RafRestore
  \/ Tick

SpecResize == InitResize /\ [][NextResize]_vars

\* a resize has been handled and nothing else has moved the viewport since
ResizeHandled == indexAtResize # -1 /\ ~ResizePending /\ Settled

\* C4: once a window resize has been handled, the current slide index is the
\* index that was current before the resize, also when the resize switched
\* the responsive breakpoint
C4_ResizeKeepsIndex == ResizeHandled => CurIndex = indexAtResize

\* a prev/next from an aligned rest has come to rest
NavSettled == lastNav.from # -1 /\ Settled

\* C5: in infinite mode a prev/next click or arrow key from an aligned rest
\* changes the index by exactly one modulo N once the scroll has settled,
\* and the distance the controls scroll is the step of _getStep
C5_ControlsStep ==
  (options.infinite /\ NavSettled) =>
    /\ CurIndex = Mod(lastNav.from + lastNav.dir, originalCount)
    /\ CurScrollDistance = CurStep

\* a click on a dot has come to rest
DotSettled == lastNav.dot # -1 /\ Settled

\* C9: once the scroll a click on dot i started has settled, the current
\* index is i and dot i is the active dot, in both modes
C9_DotGoesToSlide == DotSettled => (CurIndex = lastNav.dot /\ activeDot = lastNav.dot)

\* C10: with dots enabled there are as many dot buttons as original slides
C10_DotCount == options.dots => dotCount = originalCount

\* dots of an infinite carousel, whose track holds the clones too
C10_Witness == options.dots /\ options.infinite /\ ~initPending /\ trackLen = 3 * dotCount

(***************************************************************************)
(* SpecAuto: autoplay, its pauses and the controls                         *)
(***************************************************************************)
\* the autoplay interval, in grains of time
AutoplayTicks == 3

\* a viewport that shows two slides of whole pixels and the gap between them
AutoViewport == Px(2 * ViewportPx + GapN)

InitAuto ==
  \E n \in 1..MaxSlides, k \in 1..2, inf \in BOOLEAN, isHidden \in BOOLEAN,
     reasons \in SUBSET AllReasons :
    LET o == MakeOptions(k, CssLen(GapN, "px"), CssLen(0, "px"), NoRatio, inf, TRUE, TRUE,
                         AutoplayTicks * TickMs, reasons, NoResponsive)
    IN  /\ ValidLayout(o, AutoViewport, AutoViewport)
        /\ Constructed(o, n, AutoViewport, AutoViewport, isHidden)

NextAuto ==
  \/ InitPosition
  \/ AutoplayFire
  \/ SmoothFrame
  \/ ScrollTimerFire
  \/ PrevClick
  \/ NextClick
  \/ KeyDown
  \/ DotClick
  \/ MouseEnter
  \/ MouseLeave
  \/ FocusIn
  \/ FocusOut
  \/ VisibilityChange
  \/ Tick

SpecAuto == InitAuto /\ [][NextAuto]_vars

\* no setInterval of the autoplay is active
NoInterval == autoplayTimer = 0 /\ DOMAIN autoplayTimers = {}

\* an autoplay tick from an aligned rest has come to rest, with no input of
\* the user since
StepSettled == lastStep.from # -1 /\ Settled

\* C6: in infinite mode, with no pause reason and no user input, every
\* autoplay tick advances the current index by exactly one modulo N, so the
\* carousel never stays at the physical end of the track
C6_AutoplayAdvances ==
  (options.infinite /\ options.autoplay /\ pauseReasons = {} /\ StepSettled) =>
    CurIndex = Mod(lastStep.from + 1, originalCount)

\* C7: with autoplay and pauseOnVisibility, while the page is hidden no
\* autoplay interval is active and no autoplay step is issued
C7_HiddenPaused ==
  (options.autoplay /\ options.pauseOnVisibility /\ hidden) =>
    (NoInterval /\ lastStep.kind = "none")

\* C8: while a pause reason is recorded no autoplay interval is active
C8_PausedNoInterval == pauseReasons # {} => NoInterval

\* paused by focus alone, the pointer outside, after a click on a dot
C8_Witness ==
  /\ options.pauseOnHover
  /\ pauseReasons = {"focus"}
  /\ ~hover
  /\ DotSettled
  /\ NoInterval

(***************************************************************************)
(* SpecLoop: autoplay alone, in infinite mode, with no input of the user   *)
(***************************************************************************)
InitLoop ==
  \E n \in 1..MaxSlides, k \in 1..MaxVisible, gap \in GapChoices, peek \in PeekChoices :
    LET o == MakeOptions(k, gap, peek, NoRatio, TRUE, TRUE, TRUE, AutoplayTicks * TickMs,
                         AllReasons, NoResponsive)
    IN  /\ ValidLayout(o, Px(ViewportPx), Px(ViewportPx))
        /\ Constructed(o, n, Px(ViewportPx), Px(ViewportPx), FALSE)

NextLoop ==
  \/ InitPosition
  \/ AutoplayFire
  \/ SmoothFrame
  \/ ScrollTimerFire
  \/ Tick

SpecLoop == InitLoop /\ [][NextLoop]_vars

(***************************************************************************)
(* SpecDots: the dots, in both modes                                       *)
(***************************************************************************)
InitDots == InitNav

NextDots ==
  \/ InitPosition
  \/ DotClick
  \/ SmoothFrame
  \/ ScrollTimerFire
  \/ Tick

SpecDots == InitDots /\ [][NextDots]_vars

(***************************************************************************)
(* SpecCascade: resizing across two responsive breakpoints                 *)
(***************************************************************************)
\* a second breakpoint, which the wide window matches too
WideBreakpoint == ViewportPx + GrowPx + MarginPx

\* what the breakpoints set: the narrow one two options, the wide one only one
NarrowSettings == [itemsVisible |-> 1, gap |-> CssLen(0, "px")]

WideSettings == [itemsVisible |-> 2]

\* responsive options with one or both of the breakpoints
CascadeChoices ==
  {Breakpoint :> NarrowSettings,
   WideBreakpoint :> WideSettings,
   (Breakpoint :> NarrowSettings) @@ (WideBreakpoint :> WideSettings)}

InitCascade ==
  \E k \in 2..3, gap \in GapChoices, inf \in BOOLEAN, resp \in CascadeChoices,
     V \in ResizeWidths :
    LET margin == Px(MarginPx)
        o == MakeOptions(k, gap, CssLen(PeekN, "px"), NoRatio, inf, TRUE, FALSE, 0,
                         AllReasons, resp)
    IN  /\ ValidLayouts(o, margin)
        /\ Constructed(o, MaxSlides, V + margin, V, FALSE)

NextCascade ==
  \/ InitPosition
  \/ ScrollTimerFire
  \/ ResizeEvent
  \/ ThrottleFire
  \/ DebounceFire
  \/ RafRestore
  \/ Tick

SpecCascade == InitCascade /\ [][NextCascade]_vars

\* the breakpoints the window matches: those it is not wider than
Matching == {b \in DOMAIN baseOptions.responsive : innerWidth <= Px(b)}

\* the largest and the smallest of a set of breakpoints
Largest(S) == CHOOSE b \in S : \A c \in S : c <= b

Smallest(S) == CHOOSE b \in S : \A c \in S : b <= c

\* the responsive settings were evaluated after the last resize event: no
\* timer of _onResize is pending
OptionsCurrent == throttleTimer = -1 /\ debounceTimer = -1

\* the options carry every setting of breakpoint b
Applies(b) ==
  \A key \in DOMAIN baseOptions.responsive[b] : options[key] = baseOptions.responsive[b][key]

SelectedSettings ==
  IF Matching = {} THEN [key \in {} |-> 0] ELSE baseOptions.responsive[Smallest(Matching)]

\* C12: after any sequence of resizes the effective options are the base
\* options overlaid with the settings of the breakpoint selected at the
\* current width, and the base options alone when the window is wider than
\* every breakpoint: nothing of a breakpoint left behind stays
C12_NoLeak ==
  OptionsCurrent =>
    /\ options = Overlay(baseOptions, SelectedSettings)
    /\ (Matching = {} => options = baseOptions)

\* the window has left the narrow breakpoint, which set the gap, for the
\* wide one, which does not: the gap is the base gap again
C12_Witness ==
  /\ OptionsCurrent
  /\ indexAtResize # -1
  /\ Matching = {WideBreakpoint}
  /\ Breakpoint \in DOMAIN baseOptions.responsive
  /\ options.gap = baseOptions.gap
  /\ options.gap # NarrowSettings.gap

(***************************************************************************)
(* Claims about the classes of the root while scrolling                    *)
(***************************************************************************)
\* a scroll event arrived less than 100 ms ago
Scrolling == sinceScroll < ScrollDebounceMs

\* the classes the documentation gives the root while it scrolls
ScrollingClasses == {"ofc-scrolling-prev", "ofc-scrolling-next"}

\* C13: while the carousel scrolls the root carries ofc-scrolling-prev when
\* the scroll goes left and ofc-scrolling-next when it goes right, and 100 ms
\* after the last scroll event it carries neither
C13_ScrollingClass ==
  /\ (Scrolling /\ scrollDir = -1) => "ofc-scrolling-prev" \in rootClasses
  /\ (Scrolling /\ scrollDir = 1) => "ofc-scrolling-next" \in rootClasses
  /\ ~Scrolling => rootClasses \cap ScrollingClasses = {}

(***************************************************************************)
(* SpecDestroy: destroy() and what happens after it                        *)
(***************************************************************************)
\* the listeners destroy() passes to removeEventListener
RemovedByDestroy ==
  {"keydown", "scroll", "activeScroll", "mouseenter", "mouseleave", "focusin", "focusout",
   "visibilitychange", "resize"}

\* destroy(): remove the listeners the instance kept a reference to, then
\* _clearAutoplayTimer() and clearTimeout(this._resizeTimer), a property
\* nothing assigns
Destroy ==
  /\ ~destroyed
  /\ destroyed' = TRUE
  /\ listeners' = listeners \ RemovedByDestroy
  /\ LET at == ClearAutoplayTimer(CurAutoplay)
     IN  /\ autoplayTimers' = at.timers
         /\ autoplayTimer' = at.handle
  /\ UNCHANGED <<pauseReasons, lastStep>>
  /\ UNCHANGED <<envVars, optVars, scrollVars, dotVars, resizeVars, imageVars>>

InitDestroy ==
  \E inf \in BOOLEAN, dots \in BOOLEAN :
    LET o == MakeOptions(1, CssLen(GapN, "px"), CssLen(0, "px"), NoRatio, inf, dots, TRUE,
                         AutoplayTicks * TickMs, AllReasons, NoResponsive)
    IN  Constructed(o, MaxSlides, Px(ViewportPx), Px(ViewportPx), FALSE)

NextDestroy ==
  \/ InitPosition
  \/ AutoplayFire
  \/ SmoothFrame
  \/ ScrollTimerFire
  \/ DotClick
  \/ ResizeEvent
  \/ ThrottleFire
  \/ DebounceFire
  \/ RafRestore
  \/ Destroy
  \/ Tick

SpecDestroy == InitDestroy /\ [][NextDestroy]_vars

\* C14: after destroy() none of the listeners the constructor registered is
\* attached, so no later event reaches the instance
C14_NoListenerLeft == destroyed => listeners = {}

\* C15: after destroy() the instance owns no timer: no autoplay interval is
\* active, and no timeout of the scroll debounce or of the resize throttle
\* and debounce is pending
C15_NoTimerLeft ==
  destroyed =>
    /\ NoInterval
    /\ scrollTimers = {}
    /\ throttleTimer = -1
    /\ debounceTimer = -1

(***************************************************************************)
(* SpecKeys: the keyboard, with the focus inside or outside the carousel   *)
(***************************************************************************)
InitKeys ==
  \E n \in 1..MaxSlides, k \in 1..2, inf \in BOOLEAN, reasons \in {{}, AllReasons} :
    LET o == MakeOptions(k, CssLen(GapN, "px"), CssLen(0, "px"), NoRatio, inf, FALSE, TRUE,
                         AutoplayTicks * TickMs, reasons, NoResponsive)
    IN  /\ ValidLayout(o, AutoViewport, AutoViewport)
        /\ Constructed(o, n, AutoViewport, AutoViewport, FALSE)

NextKeys ==
  \/ InitPosition
  \/ KeyDown
  \/ FocusIn
  \/ FocusOut
  \/ SmoothFrame
  \/ ScrollTimerFire
  \/ AutoplayFire
  \/ Tick

SpecKeys == InitKeys /\ [][NextKeys]_vars

\* C16: a keydown of an arrow key while the focus is outside the carousel,
\* and a keydown of any other key, leave the scroll offset, the scroll in
\* progress and the autoplay timer as they are
C16_KeysNeedFocus ==
  [][\A key \in Keys :
       (KeyDownOf(key) /\ (~focusInside \/ ArrowDir(key) = 0))
         => UNCHANGED <<scrollLeft, scrollTarget, autoplayTimers, autoplayTimer>>]_vars

\* ArrowRight was pressed with the focus outside a carousel at rest whose
\* autoplay interval is running, and was ignored
C16_Witness ==
  /\ ~focusInside
  /\ lastNav = IgnoredKey("ArrowRight")
  /\ Settled
  /\ scrollLeft < CurMaxLeft
  /\ autoplayTimer # 0

CssOptionKeys == {"itemsVisible", "peek", "gap", "aspect"}

\* what the caller passes for an option, when it passes it
JsValues ==
  [itemsVisible |-> 1, peek |-> CssLen(PeekN, "px"), gap |-> CssLen(GapN, "px"), aspect |-> 100]

\* the text of a CSS variable, when a style sets it
CssValues ==
  [itemsVisible |-> CssLen(2, ""), peek |-> CssLen(PeekN + 1, "px"),
   gap |-> CssLen(GapN + 1, "px"), aspect |-> CssLen(150, "")]

\* a viewport wide enough for the default peek and gap
OptionsViewport == Px(2 * DefaultPeekPx + MaxVisible * (ViewportPx + DefaultGapPx))

InitOptions ==
  \E passed \in SUBSET CssOptionKeys, styled \in SUBSET CssOptionKeys, n \in 1..MaxSlides :
    LET js == [key \in passed |-> JsValues[key]]
        css == [key \in CssOptionKeys |-> IF key \in styled THEN CssValues[key] ELSE NoCssValue]
    IN  /\ ValidLayout(ResolveOptions(js, css), OptionsViewport, OptionsViewport)
        /\ ConstructedWith(js, css, n, OptionsViewport, OptionsViewport, FALSE, 0)

NextOptions ==
  \/ InitPosition
  \/ ScrollTimerFire
  \/ Tick

SpecOptions == InitOptions /\ [][NextOptions]_vars

\* what a CSS variable's text stands for: a number for itemsVisible and
\* aspect, the text itself for peek and gap
CssMeaning(key, text) == IF key \in {"itemsVisible", "aspect"} THEN text.n ELSE text

\* the built-in defaults of the options that have a CSS variable
BuiltIn ==
  [itemsVisible |-> DefaultItemsVisible, peek |-> CssLen(DefaultPeekPx, "px"),
   gap |-> CssLen(DefaultGapPx, "px"), aspect |-> DefaultAspect]

\* the defaults of the options without a CSS variable
OtherDefaults ==
  [infinite |-> TRUE, dots |-> FALSE, autoplay |-> FALSE,
   autoplayInterval |-> DefaultAutoplayInterval, pauseOnHover |-> TRUE,
   pauseOnFocus |-> TRUE, pauseOnVisibility |-> TRUE]

InitModes ==
  \E n \in 1..MaxSlides, k \in 1..2, peek \in PeekChoices, inf \in BOOLEAN, dots \in BOOLEAN :
    LET o == MakeOptions(k, CssLen(GapN, "px"), peek, NoRatio, inf, dots, FALSE, 0, AllReasons,
                         NoResponsive)
    IN  /\ ValidLayout(o, Px(ViewportPx), Px(ViewportPx))
        /\ Constructed(o, n, Px(ViewportPx), Px(ViewportPx), FALSE)

NextModes ==
  \/ InitPosition
  \/ UserScroll
  \/ DotClick
  \/ SmoothFrame
  \/ ScrollTimerFire
  \/ Tick

SpecModes == InitModes /\ [][NextModes]_vars

\* C19: with infinite: false the track holds the N original slides and no
\* clone, no run of the scroll handler is pending or has assigned the
\* offset, and a scroll changes the offset and the active dot only
C19_FiniteNoTeleport ==
  /\ [](~options.infinite =>
          /\ trackLen = originalCount
          /\ "scroll" \notin listeners
          /\ scrollTimers = {}
          /\ lastJump = NoJump)
  /\ [][(~options.infinite /\ scrollLeft' # scrollLeft) =>
          UNCHANGED <<envVars, optVars, isAdjusting, scrollTimers, initPending, dotCount,
                      throttleTimer, debounceTimer, rafIndex, autoVars, lifeVars,
                      imageVars>>]_vars

\* without the infinite loop, the user has scrolled to the last of several
\* slides and the active dot has followed
C19_Witness ==
  /\ ~options.infinite
  /\ lastNav = NoNav
  /\ sinceScroll = 0
  /\ scrollLeft = CurMaxLeft
  /\ activeDot = originalCount - 1
  /\ activeDot > 0

(***************************************************************************)
(* SpecAspect: aspectAuto, the images of the first slide and resizes       *)
(***************************************************************************)
\* checkAllLoaded, the load listener of an image of the first slide: count
\* it, and give the viewport the slide's height when it was the last
ImageLoad ==
  /\ imagesLeft > 0
  /\ imagesLeft' = imagesLeft - 1
  /\ heightSet' = (heightSet \/ imagesLeft' = 0)
  /\ UNCHANGED heightRaf
  /\ UNCHANGED <<envVars, optVars, scrollVars, dotVars, resizeVars, autoVars, lifeVars>>

InitAspect ==
  \E n \in 1..MaxSlides, inf \in BOOLEAN, pending \in 0..MaxImages :
    LET o == Overlay(MakeOptions(1, CssLen(GapN, "px"), CssLen(0, "px"), NoRatio, inf, FALSE,
                                 FALSE, 0, AllReasons, NoResponsive),
                     [aspectAuto |-> TRUE])
    IN  ConstructedWith(o, NoCssVars, n, Px(ViewportPx), Px(ViewportPx), FALSE, pending)

NextAspect ==
  \/ InitPosition
  \/ ImageLoad
  \/ ResizeEvent
  \/ ThrottleFire
  \/ DebounceFire
  \/ RafHeight
  \/ RafRestore
  \/ ScrollTimerFire
  \/ Tick

SpecAspect == InitAspect /\ [][NextAspect]_vars

\* C20: with aspectAuto the viewport's height is not set while an image of
\* the first slide is still loading, and it is set once all have loaded
C20_HeightAfterImages == options.aspectAuto => (heightSet <=> imagesLeft = 0)

InitPlay ==
  \E k \in 1..2, inf \in BOOLEAN, reasons \in SUBSET AllReasons :
    LET o == MakeOptions(k, CssLen(GapN, "px"), CssLen(0, "px"), NoRatio, inf, TRUE, TRUE,
                         AutoplayTicks * TickMs, reasons, NoResponsive)
    IN  /\ ValidLayout(o, AutoViewport, AutoViewport)
        /\ Constructed(o, 2, AutoViewport, AutoViewport, FALSE)

NextPlay ==
  \/ InitPosition
  \/ AutoplayFire
  \/ SmoothFrame
  \/ ScrollTimerFire
  \/ PrevClick
  \/ NextClick
  \/ KeyDown
  \/ DotClick
  \/ MouseEnter
  \/ MouseLeave
  \/ FocusIn
  \/ FocusOut
  \/ VisibilityChange
  \/ Tick

SpecPlay == InitPlay /\ [][NextPlay]_vars

\* this._autoplayTimer holds an interval that is running
IntervalActive == autoplayTimer # 0 /\ autoplayTimer \in DOMAIN autoplayTimers

\* the one interval running is the one just started: a full
\* autoplayInterval lies before its first tick
FreshInterval == autoplayTimers = (autoplayTimer :> options.autoplayInterval)

\* C22: in infinite mode with autoplay, before destroy(), an interval is
\* active whenever no pause reason is recorded, from the setup on; the
\* handler that removes the last pause reason starts a new one at once
C22_RunningUnlessPaused ==
  /\ []((options.infinite /\ options.autoplay /\ ~destroyed /\ pauseReasons = {})
          => IntervalActive)
  /\ [][(options.infinite /\ options.autoplay /\ ~destroyed
           /\ pauseReasons # {} /\ pauseReasons' = {})
          => (IntervalActive /\ FreshInterval)']_vars

\* autoplay has moved an infinite carousel on, the pointer has entered and
\* left it since, and the interval runs again with its whole countdown
C22_Witness ==
  /\ options.infinite /\ options.pauseOnHover
  /\ Settled /\ CurIndex = 1
  /\ lastNav = NoNav /\ lastStep = NoStep
  /\ ~hover /\ pauseReasons = {}
  /\ IntervalActive /\ FreshInterval

\* a control is used: a click on prev, next or a dot, or an arrow key that
\* the keyboard listener acts on
ManualNav ==
  \/ PrevClick
  \/ NextClick
  \/ DotClick
  \/ \E key \in Keys : KeyDownOf(key) /\ KeyDir(key, focusInside) # 0

\* C23: a prev/next click, an arrow key with the focus inside or a dot click
\* while autoplay is running cancels the interval and starts one, so that
\* exactly one interval is active afterwards, with a full autoplayInterval
\* before its next step; never are two intervals active at once
C23_NavRestartsCountdown ==
  /\ [](DOMAIN autoplayTimers \subseteq {autoplayTimer} \ {0})
  /\ [][(IntervalActive /\ ManualNav) => (IntervalActive /\ FreshInterval)']_vars

\* prev, next or an arrow key is used on an infinite carousel that rests
\* on slide 1 and is not paused: the scroll is in progress and the
\* interval has its whole countdown before it
C23_Witness ==
  /\ options.infinite
  /\ lastNav.from = 1 /\ lastNav.dir # 0
  /\ scrollTarget # -1
  /\ pauseReasons = {}
  /\ IntervalActive /\ FreshInterval

(***************************************************************************)
(* SpecStop: autoplay at the end of a track that is not infinite           *)
(***************************************************************************)
InitStop ==
  \E n \in 1..MaxSlides, k \in 1..2, gap \in GapChoices :
    LET o == MakeOptions(k, gap, CssLen(0, "px"), NoRatio, FALSE, FALSE, TRUE,
                         AutoplayTicks * TickMs, {"hover"}, NoResponsive)
    IN  /\ ValidLayout(o, Px(ViewportPx), Px(ViewportPx))
        /\ Constructed(o, n, Px(ViewportPx), Px(ViewportPx), FALSE)

NextStop ==
  \/ UserScroll
  \/ AutoplayFire
  \/ SmoothFrame
  \/ NextClick
  \/ MouseEnter
  \/ MouseLeave
  \/ Tick

SpecStop == InitStop /\ [][NextStop]_vars

\* the target of _scrollByStep(1), clamped to the track, is less than a
\* pixel from the offset
TargetAtOffset == Abs(Min(Max(0, scrollLeft + CurStep), CurMaxLeft) - scrollLeft) < Px(1)

\* a handler that removes a pause reason runs
ReasonRemoved == MouseLeave \/ FocusOut \/ (VisibilityChange /\ ~hidden')

\* C24: in non-infinite mode an autoplay tick that finds the clamped target
\* less than 1 px from the offset issues no scroll and clears the interval;
\* an interval that is not active becomes active only by a manual
\* navigation or by the removal of a pause reason
C24_StopsAtEnd ==
  /\ [][(AutoplayFire /\ ~options.infinite /\ TargetAtOffset)
          => (NoInterval' /\ UNCHANGED <<scrollLeft, scrollTarget>>)]_vars
  /\ [][(~options.infinite /\ NoInterval /\ IntervalActive') => (ManualNav \/ ReasonRemoved)]_vars

\* autoplay has stopped on a track that can scroll, with no pause reason,
\* less than a pixel before the end of the track
C24_Witness ==
  /\ ~options.infinite
  /\ lastStep.kind = "stop"
  /\ pauseReasons = {}
  /\ NoInterval
  /\ CurMaxLeft > 0
  /\ scrollLeft < CurMaxLeft

(***************************************************************************)
(* Teleports in a row (Spec)                                               *)
(***************************************************************************)
\* C25: when the scroll handler runs after a run that teleported, with no
\* scroll of the user or of autoplay in between, it finds the offset inside
\* the real range and does not teleport a second time
C25_NoSecondTeleport ==
  [][(ScrollTimerFire /\ Teleported) => (InRealRange /\ lastJump'.kind = "stay")]_vars

(***************************************************************************)
(* SpecClone: the children of the track, from the setup on                 *)
(***************************************************************************)
\* the markups of a track of n children: each with the class or without
Markups(n) == {[i \in 1..n |-> Child(i - 1, marks[i])] : marks \in [1..n -> BOOLEAN]}

InitClone ==
  \E children \in UNION {Markups(n) : n \in 1..MaxSlides}, k \in 1..2, inf \in BOOLEAN :
    LET o == MakeOptions(k, CssLen(GapN, "px"), CssLen(0, "px"), NoRatio, inf, TRUE, FALSE, 0,
                         AllReasons, NoResponsive)
    IN  /\ ValidLayout(o, Px(ViewportPx) + Px(MarginPx), Px(ViewportPx))
        /\ ConstructedFrom(o, NoCssVars, children, Px(ViewportPx) + Px(MarginPx),
                           Px(ViewportPx), FALSE, 0)

NextClone ==
  \/ InitPosition
  \/ ScrollTimerFire
  \/ ResizeEvent
  \/ ThrottleFire
  \/ DebounceFire
  \/ RafRestore
  \/ Destroy
  \/ Tick

SpecClone == InitClone /\ [][NextClone]_vars

\* C26: in infinite mode the track holds, from the setup on and after every
\* later event, 3N slides: a clone of each of the N slides in their order,
\* the N original slides in their order, a clone of each in their order
\* again; every clone carries aria-hidden="true" and is otherwise a copy of
\* its slide, and every original slide is the node of the markup, in its
\* place and with its attributes (with the ofc-slide class, which
\* _ensureSlideElements gives a child before the slides are collected)
C26_TripledTrack ==
  options.infinite =>
    LET N == Len(markup)
    IN  /\ originalCount = N
        /\ Len(track) = 3 * N
        /\ trackLen = Len(track)
        /\ \A i \in 1..N :
             /\ track[N + i] = [markup[i] EXCEPT !.class = TRUE]
             /\ track[N + i].slide = i - 1
             /\ \A c \in {track[i], track[2 * N + i]} :
                  /\ c.clone /\ c.ariaHidden
                  /\ c.slide = i - 1
                  /\ c.class = track[N + i].class

\* an infinite carousel of two slides, the first written without the class,
\* has been resized and destroyed, and its scroll handler has run
C26_Witness ==
  /\ options.infinite
  /\ Len(markup) = 2 /\ ~markup[1].class /\ markup[2].class
  /\ indexAtResize # -1 /\ ~ResizePending
  /\ destroyed
  /\ HandlerRan

====
